---- MODULE Spec2Model ----
(***************************************************************************)
(* Model of klippy/kinematics/limited_corexy.py: the per-axis acceleration *)
(* limits of a CoreXY stage (LimitedCoreXYKinematics).                     *)
(*                                                                         *)
(* The kinematics object `self` holds the limits, SET_KINEMATICS_LIMIT     *)
(* (cmd_SET_KINEMATICS_LIMIT) rewrites them and check_move computes, for   *)
(* one move, the three caps it hands to move.limit_speed.                  *)
(*                                                                         *)
(* Python floats are modelled as they are: IEEE 754 binary64 numbers, each  *)
(* operation rounded to the nearest float.  The limits self holds and the  *)
(* caps of a toolhead are written as the integers their floats equal.      *)
(***************************************************************************)
EXTENDS Integers, Sequences, FiniteSets, TLC

(***************************************************************************)
(* Bounds of the model.                                                    *)
(***************************************************************************)
MaxAccel == 164 \* largest acceleration a configuration or a toolhead holds
MaxVel   == 2   \* largest velocity a configuration or a toolhead holds
MaxCoord == 4   \* largest |displacement| of a move along one axis

(***************************************************************************)
(* Natural numbers of any size: the sequence of their digits in base       *)
(* 2^14, the lowest first, the highest not 0 (<<>> is 0).  The operations  *)
(* are functions: their arguments are values when they are applied.        *)
(***************************************************************************)
DigitBits == 14
Base == 2^DigitBits

Digits == Seq(Nat)

\* the largest member of a set of integers that is not empty
SetMax(S) == CHOOSE i \in S : \A j \in S : j <= i

\* a without the zeros above its highest digit
BNorm[a \in Digits] ==
    LET nz == {i \in 1..Len(a) : a[i] # 0}
    IN  IF nz = {} THEN <<>> ELSE SubSeq(a, 1, SetMax(nz))

BFromInt[n \in Nat] ==
    IF n = 0 THEN <<>> ELSE <<n % Base>> \o BFromInt[n \div Base]

BDigit(a, i) == IF i <= Len(a) THEN a[i] ELSE 0

\* -1, 0, 1 as a < b, a = b, a > b
BCmp[a \in Digits, b \in Digits] ==
    LET d == {i \in 1..Len(a) : a[i] # BDigit(b, i)}
    IN  IF Len(a) < Len(b) THEN -1
        ELSE IF Len(a) > Len(b) THEN 1
        ELSE IF d = {} THEN 0
        ELSE IF a[SetMax(d)] < b[SetMax(d)] THEN -1 ELSE 1

\* a + b: digit i takes a carry when a lower digit j overflows and every
\* digit between them is full
BAdd[a \in Digits, b \in Digits] ==
    LET n == IF Len(a) < Len(b) THEN Len(b) ELSE Len(a)
        t == [i \in 1..(n + 1) |-> BDigit(a, i) + BDigit(b, i)]
        carry(i) ==
            IF \E j \in 1..(i - 1) :
                  t[j] >= Base /\ \A k \in (j + 1)..(i - 1) : t[k] = Base - 1
            THEN 1 ELSE 0
    IN  BNorm[[i \in 1..(n + 1) |-> (t[i] + carry(i)) % Base]]

\* a - b, for a >= b: digit i gives a borrow when a lower digit j falls
\* below 0 and every digit between them is 0
BSub[a \in Digits, b \in Digits] ==
    LET t == [i \in 1..Len(a) |-> a[i] - BDigit(b, i)]
        borrow(i) ==
            IF \E j \in 1..(i - 1) :
                  t[j] < 0 /\ \A k \in (j + 1)..(i - 1) : t[k] = 0
            THEN 1 ELSE 0
    IN  BNorm[[i \in 1..Len(a) |-> (t[i] - borrow(i)) % Base]]

\* a * Base^n
BShlDigits[a \in Digits, n \in Nat] ==
    IF a = <<>> THEN a ELSE [i \in 1..n |-> 0] \o a

\* a * d, for a digit d: the low halves of the products of the digits, plus
\* their high halves one digit up
BMulSmall[a \in Digits, d \in Nat] ==
    LET n == Len(a)
        t == [i \in 1..(n + 1) |->
                 ((BDigit(a, i) * d) % Base)
                     + (IF i = 1 THEN 0 ELSE (a[i - 1] * d) \div Base)]
        carry(i) ==
            IF \E j \in 1..(i - 1) :
                  t[j] >= Base /\ \A k \in (j + 1)..(i - 1) : t[k] = Base - 1
            THEN 1 ELSE 0
    IN  BNorm[[i \in 1..(n + 1) |-> (t[i] + carry(i)) % Base]]

\* acc + a * (the digits of b from the i-th on) * Base^(i-1)
BMulFrom[a \in Digits, b \in Digits, i \in Nat, acc \in Digits] ==
    IF i > Len(b) THEN acc
    ELSE BMulFrom[a, b, i + 1,
                  BAdd[acc, BShlDigits[BMulSmall[a, b[i]], i - 1]]]

BMul[a \in Digits, b \in Digits] == BMulFrom[a, b, 1, <<>>]

\* a * 2^k and floor(a / 2^k)
BShl[a \in Digits, k \in Nat] ==
    LET r == k % DigitBits
        d == [i \in 1..(Len(a) + 1) |->
                 (BDigit(a, i) % (2^(DigitBits - r))) * 2^r
                     + (IF i = 1 THEN 0 ELSE a[i - 1] \div (2^(DigitBits - r)))]
    IN  BShlDigits[BNorm[d], k \div DigitBits]

BShr[a \in Digits, k \in Nat] ==
    LET n == k \div DigitBits
        r == k % DigitBits
        d == IF n >= Len(a) THEN <<>> ELSE SubSeq(a, n + 1, Len(a))
    IN  BNorm[[i \in 1..Len(d) |->
                  d[i] \div (2^r) + (BDigit(d, i + 1) % (2^r)) * 2^(DigitBits - r)]]

\* the number of bits of a digit, and of a
IntBits(n) == Cardinality({k \in 0..(DigitBits - 1) : 2^k <= n})

BitLen[a \in Digits] ==
    IF a = <<>> THEN 0 ELSE DigitBits * (Len(a) - 1) + IntBits(a[Len(a)])

\* bit k of a (bit 0 is the lowest)
BBit(a, k) == (BDigit(a, k \div DigitBits + 1) \div (2^(k % DigitBits))) % 2

\* whether the k lowest bits of a are all 0
BLowZero(a, k) ==
    /\ \A i \in 1..(k \div DigitBits) : BDigit(a, i) = 0
    /\ BDigit(a, k \div DigitBits + 1) % (2^(k % DigitBits)) = 0

\* <<q, r - b * q>> when p = b * q fits in r, else <<>>
BFitTry(r, p, q) == IF BCmp[p, r] <= 0 THEN <<q, BSub[r, p]>> ELSE <<>>

\* the quotient and the remainder of r by b, for b # 0 with its highest
\* digit >= Base / 2 and r < b * Base: q is lowered until b * q fits in r
BFit[r \in Digits, b \in Digits, q \in Nat] ==
    LET c == BFitTry(r, BMulSmall[b, q], q)
    IN  IF c = <<>> THEN BFit[r, b, q - 1] ELSE c

\* qt[1] is the estimate of a digit of the quotient, drawn from the two
\* highest digits of the remainder (qt[1] * v1 + qt[2] is their value): it
\* is lowered by one when the next digit of the divisor, v2, and of the
\* remainder, u, show it to be too high
BLower(qt, v1, v2, u) ==
    IF qt[1] >= Base \/ (qt[2] < Base /\ qt[1] * v2 > qt[2] * Base + u)
    THEN <<qt[1] - 1, qt[2] + v1>> ELSE qt

BDivStep[r \in Digits, b \in Digits] ==
    LET n  == Len(b)
        hi == BDigit(r, n + 1) * Base + BDigit(r, n)
        v2 == IF n > 1 THEN b[n - 1] ELSE 0
        u  == IF n > 1 THEN BDigit(r, n - 1) ELSE 0
    IN  BFit[r, b, BLower(BLower(<<hi \div b[n], hi % b[n]>>, b[n], v2, u),
                          b[n], v2, u)[1]]

\* the quotient q with the digit s[1] put below it, and the remainder s[2]
BDivNext(s, q) == <<BNorm[<<s[1]>> \o q], s[2]>>

\* qr is the quotient and the remainder of the digits of a above the i-th
BDivFrom[a \in Digits, b \in Digits, i \in Nat, qr \in Digits \X Digits] ==
    IF i = 0 THEN qr
    ELSE BDivFrom[a, b, i - 1,
                  BDivNext(BDivStep[BNorm[<<a[i]>> \o qr[2]], b], qr[1])]

BDivResult(qr) == [q |-> qr[1], exact |-> qr[2] = <<>>]

\* floor(as / bs) and whether a remainder is left, for bs # 0 with its
\* highest digit >= Base / 2.  top is the highest digits of as, as many as
\* bs has: when they are below bs they are the first remainder, else all
\* but the lowest are
BDivNormal(as, bs) ==
    LET n     == Len(as) - Len(bs)
        top   == BNorm[SubSeq(as, n + 1, Len(as))]
        below == BCmp[top, bs] < 0
    IN  IF n < 0 THEN BDivResult(<<<<>>, as>>)
        ELSE BDivResult(
                 BDivFrom[as, bs, IF below THEN n ELSE n + 1,
                          <<<<>>, IF below THEN top
                                  ELSE BNorm[SubSeq(as, n + 2, Len(as))]>>])

\* floor(a * 2^k / b) and whether a remainder is left, for any b # 0
BDiv[a \in Digits, k \in Nat, b \in Digits] ==
    LET s == DigitBits - IntBits(b[Len(b)])
    IN  BDivNormal(BShl[a, k + s], BShl[b, s])

(***************************************************************************)
(* Python floats (IEEE 754 binary64, rounding to nearest, ties to even).   *)
(* A finite float is (-1)^s * m * 2^e with m < 2^53, and m >= 2^52 unless  *)
(* e = EMin (a subnormal) or m = 0 (a zero, e = 0).  A division by zero    *)
(* gives ZeroDivisionError, which every later operation passes on: the     *)
(* exception leaves the function.                                          *)
(***************************************************************************)
Precision == 53
EMin == -1074
EMax == 971

Floats == [k : {"fin", "inf", "nan", "ZeroDivisionError"},
           s : {0, 1}, m : Digits, e : Int]

Finite(s, m, e) == [k |-> "fin", s |-> s, m |-> m, e |-> e]
Zero(s) == Finite(s, <<>>, 0)
Inf(s)  == [k |-> "inf", s |-> s, m |-> <<>>, e |-> 0]
NaN     == [k |-> "nan", s |-> 0, m |-> <<>>, e |-> 0]
ZeroDivisionError == [k |-> "ZeroDivisionError", s |-> 0, m |-> <<>>, e |-> 0]

Raised(a) == a.k = "ZeroDivisionError"
IsZero(a) == a.k = "fin" /\ a.m = <<>>

\* a finite float that is not 0
Nonzero(a) == a.k = "fin" /\ a.m # <<>>

\* the float (-1)^s * m * 2^e, for m < 2^Precision
RoundPack(s, m, e) ==
    IF m = <<>> THEN Zero(s)
    ELSE IF e > EMax THEN Inf(s)
    ELSE Finite(s, m, e)

\* m, rounded up to 2^Precision at most, halved when it is 2^Precision
RoundCarry(s, m, e) ==
    IF BitLen[m] > Precision THEN RoundPack(s, BShr[m, 1], e + 1)
    ELSE RoundPack(s, m, e)

\* q with the guard bit g and the bits r below it: up when they are more
\* than half of q's last place, or half of it and q is odd
RoundUp(s, q, e, g, r) ==
    RoundCarry(s, IF g /\ (r \/ BBit(q, 0) = 1) THEN BAdd[q, <<1>>] ELSE q, e)

\* m with its sh lowest bits taken off (sh <= 0: -sh zeros put below it)
RoundShift(s, m, e, sticky, sh) ==
    RoundUp(s, IF sh <= 0 THEN BShl[m, -sh] ELSE BShr[m, sh], e,
            sh > 0 /\ BBit(m, sh - 1) = 1,
            sticky \/ (sh > 1 /\ ~BLowZero(m, sh - 1)))

\* e1 is the exponent of the result: that of a mantissa of Precision bits,
\* EMin at least
RoundTo(s, m, e, sticky, e1) == RoundShift(s, m, e1, sticky, e1 - e)

\* the float nearest to (m + t) * 2^e, where 0 <= t < 1 and t > 0 exactly
\* when `sticky`; m carries Precision + 2 bits or more when sticky
Round[s \in {0, 1}, m \in Digits, e \in Int, sticky \in BOOLEAN] ==
    IF m = <<>> /\ ~sticky THEN Zero(s)
    ELSE RoundTo(s, m, e, sticky,
                 IF e + BitLen[m] - Precision < EMin THEN EMin
                 ELSE e + BitLen[m] - Precision)

\* Round of <<s, m, e, sticky>>
RoundOf(t) == Round[t[1], t[2], t[3], t[4]]

\* float(i) of an integer i
F[i \in Int] ==
    Round[IF i < 0 THEN 1 ELSE 0, BFromInt[IF i < 0 THEN -i ELSE i], 0, FALSE]

\* -a
FNeg[a \in Floats] ==
    IF a.k \in {"fin", "inf"} THEN [a EXCEPT !.s = 1 - a.s] ELSE a

\* abs(a)
FAbs[a \in Floats] ==
    IF a.k \in {"fin", "inf"} THEN [a EXCEPT !.s = 0] ELSE a

\* hi + lo before rounding, as <<s, m, e, sticky>>, for finite hi, lo # 0
\* with hi.e >= lo.e, where mh * 2^lo.e = |hi|
FAddAligned(hi, lo, mh) ==
    LET c == BCmp[mh, lo.m]
    IN  IF hi.s = lo.s THEN <<hi.s, BAdd[mh, lo.m], lo.e, FALSE>>
        ELSE IF c = 0 THEN <<0, <<>>, 0, FALSE>>
        ELSE IF c > 0 THEN <<hi.s, BSub[mh, lo.m], lo.e, FALSE>>
        ELSE <<lo.s, BSub[lo.m, mh], lo.e, FALSE>>

FAddExact(hi, lo) ==
    IF hi.e - lo.e > Precision + 3
    THEN \* lo lies more than Precision + 3 binary places below hi: it
         \* moves the sum only as a part of hi's last place does
         <<hi.s, IF hi.s = lo.s THEN BShl[hi.m, 2]
                 ELSE BSub[BShl[hi.m, 2], <<1>>], hi.e - 2, TRUE>>
    ELSE FAddAligned(hi, lo, BShl[hi.m, hi.e - lo.e])

\* a + b for finite a, b # 0
FAddNonzero[a \in Floats, b \in Floats] ==
    RoundOf(FAddExact(IF a.e >= b.e THEN a ELSE b, IF a.e >= b.e THEN b ELSE a))

\* a + b
FAdd[a \in Floats, b \in Floats] ==
    IF Nonzero(a) /\ Nonzero(b) THEN FAddNonzero[a, b]
    ELSE IF Raised(a) \/ Raised(b) THEN ZeroDivisionError
    ELSE IF a.k = "nan" \/ b.k = "nan" THEN NaN
    ELSE IF a.k = "inf" THEN (IF b.k = "inf" /\ b.s # a.s THEN NaN ELSE a)
    ELSE IF b.k = "inf" THEN b
    ELSE IF IsZero(a) /\ IsZero(b) THEN Zero(IF a.s = 1 /\ b.s = 1 THEN 1 ELSE 0)
    ELSE IF IsZero(a) THEN b
    ELSE a

\* a - b
FSub[a \in Floats, b \in Floats] == FAdd[a, FNeg[b]]

\* a * b
FMul[a \in Floats, b \in Floats] ==
    LET s == IF a.s = b.s THEN 0 ELSE 1
    IN  IF a.k = "fin" /\ b.k = "fin"
        THEN Round[s, BMul[a.m, b.m], a.e + b.e, FALSE]
        ELSE IF Raised(a) \/ Raised(b) THEN ZeroDivisionError
        ELSE IF a.k = "nan" \/ b.k = "nan" THEN NaN
        ELSE IF IsZero(a) \/ IsZero(b) THEN NaN
        ELSE Inf(s)

\* the float nearest to (-1)^s * d * 2^e, d a quotient of BDiv
FDivRound(s, d, e) == Round[s, d.q, e, ~d.exact]

\* a / b for finite a, b # 0
FDivNonzero[a \in Floats, b \in Floats] ==
    LET sh == Precision + 2 + BitLen[b.m] - BitLen[a.m]
    IN  FDivRound(IF a.s = b.s THEN 0 ELSE 1, BDiv[a.m, sh, b.m],
                  a.e - b.e - sh)

\* a / b: Python raises ZeroDivisionError on a zero divisor
FDiv[a \in Floats, b \in Floats] ==
    LET s == IF a.s = b.s THEN 0 ELSE 1
    IN  IF Nonzero(a) /\ Nonzero(b) THEN FDivNonzero[a, b]
        ELSE IF Raised(a) \/ Raised(b) THEN ZeroDivisionError
        ELSE IF IsZero(b) THEN ZeroDivisionError
        ELSE IF a.k = "nan" \/ b.k = "nan" THEN NaN
        ELSE IF a.k = "inf" THEN (IF b.k = "inf" THEN NaN ELSE Inf(s))
        ELSE Zero(s)

\* a < b
FLt[a \in Floats, b \in Floats] ==
    IF a.k \notin {"fin", "inf"} \/ b.k \notin {"fin", "inf"} THEN FALSE
    ELSE IF IsZero(a) /\ IsZero(b) THEN FALSE
    ELSE IF a.s # b.s THEN a.s = 1
    ELSE LET lt == \* |a| < |b|
                   IF a.k = "inf" THEN FALSE
                   ELSE IF b.k = "inf" THEN TRUE
                   ELSE IF IsZero(a) THEN TRUE
                   ELSE IF IsZero(b) THEN FALSE
                   ELSE a.e < b.e \/ (a.e = b.e /\ BCmp[a.m, b.m] < 0)
             gt == IF b.k = "inf" THEN FALSE
                   ELSE IF a.k = "inf" THEN TRUE
                   ELSE IF IsZero(b) THEN TRUE
                   ELSE IF IsZero(a) THEN FALSE
                   ELSE b.e < a.e \/ (a.e = b.e /\ BCmp[b.m, a.m] < 0)
         IN  IF a.s = 0 THEN lt ELSE gt

\* a == b
FEq[a \in Floats, b \in Floats] ==
    /\ a.k \in {"fin", "inf"} /\ b.k \in {"fin", "inf"}
    /\ (IsZero(a) /\ IsZero(b)) \/ a = b

\* a <= b
FLe[a \in Floats, b \in Floats] == FLt[a, b] \/ FEq[a, b]

\* max(a, b), min(a, b): Python keeps the first unless the second is beyond it
FMax[a \in Floats, b \in Floats] ==
    IF Raised(a) \/ Raised(b) THEN ZeroDivisionError
    ELSE IF FLt[a, b] THEN b ELSE a

FMin[a \in Floats, b \in Floats] ==
    IF Raised(a) \/ Raised(b) THEN ZeroDivisionError
    ELSE IF FLt[b, a] THEN b ELSE a

\* bool(a)
FTrue[a \in Floats] == ~IsZero(a)

(***************************************************************************)
(* Moves and toolheads handed to check_move.                               *)
(***************************************************************************)
Coords == (-MaxCoord)..MaxCoord

\* the integer root of n when n is a perfect square, else -1
ISqrt(n) ==
    LET S == {r \in 0..(2 * MaxCoord) : r * r = n}
    IN  IF S = {} THEN -1 ELSE CHOOSE r \in S : TRUE

\* toolhead.Move: move_d is the Euclidean length of axes_d[:3]; a move of
\* no XYZ length is an extrude-only move (is_kinematic_move false) whose
\* move_d is the extruder's travel.  z is drawn >= 0: check_move reads it
\* through bool(z) and abs(z) alone
KinematicMoves ==
    {[axes_d |-> <<F[x], F[y], F[z]>>,
      move_d |-> F[ISqrt(x * x + y * y + z * z)],
      is_kinematic_move |-> TRUE, end_ok |-> ok] :
        x \in Coords, y \in Coords, z \in 0..MaxCoord, ok \in BOOLEAN}

\* the least float above 0, 2^-1074
MinFloat == Finite(0, <<1>>, EMin)

\* moves along Z whose end differs from their start by the least float along
\* X: sqrt(x*x + y*y + z*z) rounds to |z|
SlightMoves ==
    {[axes_d |-> <<MinFloat, F[0], F[z]>>, move_d |-> F[z],
      is_kinematic_move |-> TRUE, end_ok |-> TRUE] : z \in 1..MaxCoord}

ExtrudeMoves ==
    {[axes_d |-> <<F[0], F[0], F[0]>>, move_d |-> F[e],
      is_kinematic_move |-> FALSE, end_ok |-> ok] :
        e \in 1..2, ok \in BOOLEAN}

Moves ==
    {m \in KinematicMoves : FLt[F[0], m.move_d]} \cup SlightMoves \cup ExtrudeMoves

\* the accelerations drawn stand as 3 to 4, the ratio of the sides of the
\* moves (3, 4) and (4, 3)
AccelVals == {123, MaxAccel}
VelVals   == {1, MaxVel}

\* toolhead.max_velocity and toolhead.max_accel, as the configuration or
\* SET_VELOCITY_LIMIT left them
Toolheads ==
    {[max_velocity |-> v, max_accel |-> a] : v \in VelVals, a \in AccelVals}

NoMove == [axes_d |-> <<F[0], F[0], F[0]>>, move_d |-> F[0],
           is_kinematic_move |-> FALSE, end_ok |-> TRUE]
NoToolhead == [max_velocity |-> 0, max_accel |-> 0]

(***************************************************************************)
(* check_move, lines 61-90: the caps of one move.  `s` holds the values    *)
(* check_move reads from self (max_x_accel, max_y_accel, scale_per_axis,   *)
(* config_max_accel, max_z_velocity, max_z_accel).                         *)
(***************************************************************************)
\* line 71
ab_linf(x, y) == FMax[FAbs[FAdd[x, y]], FAbs[FSub[x, y]]]

\* mutants of a_divisor: the limits paired with the other axis, and the
\* sum alone in place of the larger of sum and difference
a_divisor_swapped(x, y, max_x_accel, max_y_accel) ==
    LET x_o_a == FDiv[x, max_y_accel]
        y_o_a == FDiv[y, max_x_accel]
    IN  FMax[FAbs[FAdd[x_o_a, y_o_a]], FAbs[FSub[x_o_a, y_o_a]]]

a_divisor_sum_only(x, y, max_x_accel, max_y_accel) ==
    LET x_o_a == FDiv[x, max_x_accel]
        y_o_a == FDiv[y, max_y_accel]
    IN  FAbs[FAdd[x_o_a, y_o_a]]

\* the divisor of line 85, from x_o_a (line 76) and y_o_a (line 77)
a_divisor(x, y, max_x_accel, max_y_accel) ==
    LET x_o_a == FDiv[x, max_x_accel]
        y_o_a == FDiv[y, max_y_accel]
    IN  FMax[FAbs[FAdd[x_o_a, y_o_a]], FAbs[FSub[x_o_a, y_o_a]]]

\* the divisor of line 84, from x_o_pa (line 78) and y_o_pa (line 79)
pa_divisor(x, y, max_x_accel, max_y_accel) ==
    LET x_o_pa == FDiv[x, max_y_accel]
        y_o_pa == FDiv[y, max_x_accel]
    IN  FMax[FAbs[FAdd[x_o_pa, y_o_pa]], FAbs[FSub[x_o_pa, y_o_pa]]]

\* line 72
xy_guard(ab) == FLt[F[0], ab]

\* mutants of xy_limits: scale_per_axis ignored, and the velocity scaled by
\* ab_linf / move_d
xy_limits_unscaled(caps, move, s) ==
    LET move_d == move.move_d
        x      == move.axes_d[1]
        y      == move.axes_d[2]
        ab     == ab_linf(x, y)
        mx     == F[s.max_x_accel]
        my     == F[s.max_y_accel]
        max_a  == move_d
    IN  IF xy_guard(ab)
        THEN [max_v  |-> FMul[caps.max_v, FDiv[move_d, ab]],
              max_a  |-> FDiv[max_a, a_divisor(x, y, mx, my)],
              max_pa |-> FDiv[max_a, pa_divisor(x, y, mx, my)]]
        ELSE caps

xy_limits_velocity_inverted(caps, move, s) ==
    LET move_d == move.move_d
        x      == move.axes_d[1]
        y      == move.axes_d[2]
        ab     == ab_linf(x, y)
        mx     == F[s.max_x_accel]
        my     == F[s.max_y_accel]
        max_a  == IF s.scale_per_axis
                  THEN FMul[caps.max_a, FDiv[move_d, F[s.config_max_accel]]]
                  ELSE move_d
    IN  IF xy_guard(ab)
        THEN [max_v  |-> FMul[caps.max_v, FDiv[ab, move_d]],
              max_a  |-> FDiv[max_a, a_divisor(x, y, mx, my)],
              max_pa |-> FDiv[max_a, pa_divisor(x, y, mx, my)]]
        ELSE caps

\* lines 72-85: the caps after the XY branch
xy_limits(caps, move, s) ==
    LET move_d == move.move_d
        x      == move.axes_d[1]
        y      == move.axes_d[2]
        ab     == ab_linf(x, y)
        mx     == F[s.max_x_accel]
        my     == F[s.max_y_accel]
        max_a  == IF s.scale_per_axis
                  THEN FMul[caps.max_a, FDiv[move_d, F[s.config_max_accel]]]
                  ELSE move_d
    IN  IF xy_guard(ab)
        THEN [max_v  |-> FMul[caps.max_v, FDiv[move_d, ab]],
              max_a  |-> FDiv[max_a, a_divisor(x, y, mx, my)],
              max_pa |-> FDiv[max_a, pa_divisor(x, y, mx, my)]]
        ELSE caps

\* line 86
z_guard(z) == FTrue[z]

\* mutant of z_limits: max_pa clamped as max_a is
z_limits_all(caps, move, s) ==
    LET move_d  == move.move_d
        z       == move.axes_d[3]
        z_ratio == FDiv[move_d, FAbs[z]]
    IN  IF z_guard(z)
        THEN [caps EXCEPT
                !.max_v = FMin[@, FMul[F[s.max_z_velocity], z_ratio]],
                !.max_a = FMin[@, FMul[F[s.max_z_accel], z_ratio]],
                !.max_pa = FMin[@, FMul[F[s.max_z_accel], z_ratio]]]
        ELSE caps

\* lines 86-89: the caps after the Z clamp
z_limits(caps, move, s) ==
    LET move_d  == move.move_d
        z       == move.axes_d[3]
        z_ratio == FDiv[move_d, FAbs[z]]
    IN  IF z_guard(z)
        THEN [caps EXCEPT
                !.max_v = FMin[@, FMul[F[s.max_z_velocity], z_ratio]],
                !.max_a = FMin[@, FMul[F[s.max_z_accel], z_ratio]]]
        ELSE caps

\* lines 66-68
toolhead_caps(toolhead) ==
    [max_v  |-> F[toolhead.max_velocity],
     max_a  |-> F[toolhead.max_accel],
     max_pa |-> F[toolhead.max_accel]]

\* lines 65-89: the arguments of limit_speed
limits(move, toolhead, s) ==
    z_limits(xy_limits(toolhead_caps(toolhead), move, s), move, s)

CapsRaised(caps) ==
    Raised(caps.max_v) \/ Raised(caps.max_a) \/ Raised(caps.max_pa)

\* corexy.CoreXYKinematics._check_endstops: raises move.move_error() for a
\* move that ends outside the homed range
_check_endstops(move) == move.end_ok

\* line 62
kinematic_guard(move) == move.is_kinematic_move

\* mutant of calls_of: the endstop check made before the test of
\* is_kinematic_move
calls_of_endstops_first(move, caps) ==
    IF ~_check_endstops(move) THEN <<"_check_endstops">>
    ELSE IF ~kinematic_guard(move) THEN <<"_check_endstops">>
    ELSE IF CapsRaised(caps) THEN <<"_check_endstops">>
    ELSE <<"_check_endstops", "limit_speed">>

\* the calls check_move makes on its collaborators, in order (lines 62-90),
\* where caps are the results of lines 65-89
calls_of(move, caps) ==
    IF ~kinematic_guard(move) THEN <<>>
    ELSE IF ~_check_endstops(move) THEN <<"_check_endstops">>
    ELSE IF CapsRaised(caps) THEN <<"_check_endstops">>
    ELSE <<"_check_endstops", "limit_speed">>

\* how check_move ends: it returns, or an exception leaves it
outcome_of(move, caps) ==
    IF ~kinematic_guard(move) THEN "return"
    ELSE IF ~_check_endstops(move) THEN "move_error"
    ELSE IF CapsRaised(caps) THEN "ZeroDivisionError"
    ELSE "return"

NoCaps == [max_v |-> F[0], max_a |-> F[0], max_pa |-> F[0]]

(***************************************************************************)
(* SET_KINEMATICS_LIMIT, lines 45-60.  The parameters of a command are a   *)
(* dictionary: a function from the names the operator wrote to numbers.    *)
(***************************************************************************)
AccelParams == {"X_ACCEL", "Y_ACCEL", "Z_ACCEL"}
ParamNames  == AccelParams \cup {"SCALE"}

AccelParamVals == {0, 1, MaxAccel, MaxAccel + 1}
ScaleParamVals == {0, 1, 2}

ParamsOver(names, accels) ==
    {p \in UNION {[D -> accels \cup ScaleParamVals] : D \in SUBSET names} :
        \A n \in DOMAIN p :
            IF n = "SCALE" THEN p[n] \in ScaleParamVals
            ELSE p[n] \in accels}

Params == ParamsOver(ParamNames, AccelParamVals)

\* gcode.GCodeCommand.get_float(name, default, above=, maxval=): the default
\* as it is when the parameter is absent, else the value, which must be
\* > above and <= maxval
get_float(params, name, default, above, maxval) ==
    IF name \notin DOMAIN params THEN [ok |-> TRUE, v |-> default]
    ELSE IF params[name] > maxval \/ params[name] <= above
         THEN [ok |-> FALSE, v |-> default]
         ELSE [ok |-> TRUE, v |-> params[name]]

\* bool(gcode.GCodeCommand.get_int(name, default, minval=, maxval=)), the
\* default being a bool already
get_int_bool(params, name, default, minval, maxval) ==
    IF name \notin DOMAIN params THEN [ok |-> TRUE, v |-> default]
    ELSE IF params[name] < minval \/ params[name] > maxval
         THEN [ok |-> FALSE, v |-> default]
         ELSE [ok |-> TRUE, v |-> (params[name] # 0)]

\* the field each statement of lines 47-50 assigns and the parameter it reads
FieldOf(line) ==
    CASE line = 47 -> "max_x_accel"
      [] line = 48 -> "max_y_accel"
      [] line = 49 -> "max_z_accel"
      [] line = 50 -> "scale_per_axis"

ParamOf(line) ==
    CASE line = 47 -> "X_ACCEL"
      [] line = 48 -> "Y_ACCEL"
      [] line = 49 -> "Z_ACCEL"
      [] line = 50 -> "SCALE"

\* mutant of cmd_statement: the accelerations checked above 0 only, as
\* __init__ checks them
cmd_statement_no_maxval(s, params, line) ==
    LET no_max == MaxAccel + 1
        r == CASE line = 47 ->
                    get_float(params, "X_ACCEL", s.max_x_accel, 0, no_max)
               [] line = 48 ->
                    get_float(params, "Y_ACCEL", s.max_y_accel, 0, no_max)
               [] line = 49 ->
                    get_float(params, "Z_ACCEL", s.max_z_accel, 0, no_max)
               [] line = 50 ->
                    get_int_bool(params, "SCALE", s.scale_per_axis, 0, 1)
    IN  [s  |-> IF r.ok THEN [s EXCEPT ![FieldOf(line)] = r.v] ELSE s,
         ok |-> r.ok]

\* one statement of lines 47-50 on the object s: the object after it, and
\* whether the statement completed (ok) or raised the command's error
cmd_statement(s, params, line) ==
    LET config_max_accel == s.config_max_accel
        r == CASE line = 47 ->
                    get_float(params, "X_ACCEL", s.max_x_accel, 0, config_max_accel)
               [] line = 48 ->
                    get_float(params, "Y_ACCEL", s.max_y_accel, 0, config_max_accel)
               [] line = 49 ->
                    get_float(params, "Z_ACCEL", s.max_z_accel, 0, config_max_accel)
               [] line = 50 ->
                    get_int_bool(params, "SCALE", s.scale_per_axis, 0, 1)
    IN  [s  |-> IF r.ok THEN [s EXCEPT ![FieldOf(line)] = r.v] ELSE s,
         ok |-> r.ok]

FirstLine == 47
LastLine  == 50

\* lines 47-50 in order, from `line` on, up to the first statement that raises
RECURSIVE cmd_statements(_, _, _)
cmd_statements(s, params, line) ==
    IF line > LastLine THEN [s |-> s, ok |-> TRUE, line |-> line]
    ELSE LET r == cmd_statement(s, params, line)
         IN  IF r.ok THEN cmd_statements(r.s, params, line + 1)
             ELSE [s |-> s, ok |-> FALSE, line |-> line]

\* the fields lines 47..line-1 assigned from a parameter the command carries
Supplied(params, line) ==
    {FieldOf(l) : l \in {k \in FirstLine..LastLine : k < line /\ ParamOf(k) \in DOMAIN params}}

\* the square of line 57's 1/sqrt(max_x_accel**(-2) + max_y_accel**(-2)), as
\* the fraction <<n, d>> it is before any rounding
diagonal_minimum_sq(max_x_accel, max_y_accel) ==
    <<max_x_accel * max_x_accel * max_y_accel * max_y_accel,
      max_x_accel * max_x_accel + max_y_accel * max_y_accel>>

\* "%.0f" of the float nearest to the root of n/d: the nearest integer, the
\* even one of two equally near (no root of the limits drawn lies close
\* enough to the middle of two integers for the float's rounding to matter).
\* r is the integer part of the root, and the root lies below, at or above
\* r + 1/2 as 4 * n does to (2 * r + 1)^2 * d
RoundRoot(n, d) ==
    LET q == n \div d
        r == CHOOSE k \in 0..(MaxAccel + 1) : k * k <= q /\ q < (k + 1) * (k + 1)
        c == BCmp[BMul[BFromInt[4], BFromInt[n]],
                  BMul[BFromInt[(2 * r + 1) * (2 * r + 1)], BFromInt[d]]]
    IN  IF c < 0 THEN r
        ELSE IF c > 0 THEN r + 1
        ELSE IF r % 2 = 0 THEN r ELSE r + 1

\* lines 51-60, the report handed to gcmd.respond_info (its angle left out)
report(s) ==
    LET q == diagonal_minimum_sq(s.max_x_accel, s.max_y_accel)
    IN  [accels    |-> <<s.max_x_accel, s.max_y_accel, s.max_z_accel>>,
         scale     |-> s.scale_per_axis,
         min_accel |-> RoundRoot(q[1], q[2])]

NoReport == [accels |-> <<0, 0, 0>>, scale |-> FALSE, min_accel |-> 0]

(***************************************************************************)
(* State.                                                                  *)
(*   self        the kinematics object: config_max_accel, max_x_accel,     *)
(*               max_y_accel, max_z_accel, max_z_velocity, scale_per_axis  *)
(*   by_cmd      the fields whose value a command wrote from a parameter   *)
(*               it carried                                                *)
(*   cmd_result, response   how the last command ended, and its report     *)
(*   cmd_pre     self as the running or the last command found it          *)
(*   move, toolhead         the move check_move was last called with       *)
(*   calls, limited, outcome   the calls it made, the caps it passed to    *)
(*               limit_speed and how it ended                              *)
(*   cmd_pc      the line a running command is at (0: none)                *)
(*   chk_pc, chk_reads      the line a running check_move is at (0: none), *)
(*               and the values it has read from self                      *)
(*   snaps       the values of self an evaluation may answer for: self as  *)
(*               it was before and after each command the evaluation       *)
(*               overlapped                                                *)
(***************************************************************************)
VARIABLES self, by_cmd, cmd_result, response,
          move, toolhead, calls, limited, outcome,
          cmd_pc, cmd_pre, chk_pc, chk_reads, snaps

cmd_vars == <<cmd_result, response, cmd_pre>>
chk_vars == <<move, toolhead, calls, limited, outcome>>
thread_vars == <<cmd_pc, chk_pc, chk_reads, snaps>>
vars == <<self, by_cmd, cmd_vars, chk_vars, thread_vars>>

NoSelf == [config_max_accel |-> 0, max_x_accel |-> 0, max_y_accel |-> 0,
           max_z_accel |-> 0, max_z_velocity |-> 0, scale_per_axis |-> FALSE]

\* __init__, lines 35-44, over the configurations [printer] can hold:
\* config_max_accel is the toolhead's max_accel, max_x_accel and max_y_accel
\* are any value above 0 (lines 40, 41), and the base class keeps
\* max_z_accel at or below max_accel
Configs(accels, vels) ==
    {s \in [config_max_accel : accels,
            max_x_accel : accels, max_y_accel : accels, max_z_accel : accels,
            max_z_velocity : vels, scale_per_axis : BOOLEAN] :
        s.max_z_accel <= s.config_max_accel}

InitWith(configs) ==
    /\ self \in configs
    /\ by_cmd = {}
    /\ cmd_result = "none"
    /\ response = NoReport
    /\ move = NoMove
    /\ toolhead = NoToolhead
    /\ calls = <<>>
    /\ limited = NoCaps
    /\ outcome = "none"
    /\ cmd_pc = 0
    /\ cmd_pre = NoSelf
    /\ chk_pc = 0
    /\ chk_reads = NoSelf
    /\ snaps = {}

Init == InitWith(Configs(AccelVals, VelVals))

(***************************************************************************)
(* The two handlers, each run to its end on the reactor's one thread.  A   *)
(* handler starts when none is running and the last one's result was taken *)
(* by its caller.                                                          *)
(***************************************************************************)
Idle == cmd_pc = 0 /\ chk_pc = 0 /\ cmd_result = "none" /\ outcome = "none"

\* lines 45-60
cmd_SET_KINEMATICS_LIMIT(params) ==
    LET r == cmd_statements(self, params, FirstLine)
    IN  /\ Idle
        /\ self' = r.s
        /\ by_cmd' = by_cmd \cup Supplied(params, r.line)
        /\ cmd_result' = IF r.ok THEN "ok" ELSE "error"
        /\ response' = IF r.ok THEN report(r.s) ELSE NoReport
        /\ cmd_pre' = self
        /\ UNCHANGED <<chk_vars, thread_vars>>

\* the gcode dispatch the command returns to (or raises its error to)
command_return ==
    /\ cmd_pc = 0
    /\ cmd_result # "none"
    /\ cmd_result' = "none"
    /\ response' = NoReport
    /\ cmd_pre' = NoSelf
    /\ UNCHANGED <<self, by_cmd, chk_vars, thread_vars>>

\* lines 61-90
check_move(m, th) ==
    /\ Idle
    /\ \E caps \in {IF kinematic_guard(m) /\ _check_endstops(m)
                     THEN limits(m, th, self) ELSE NoCaps} :
          /\ move' = m
          /\ toolhead' = th
          /\ calls' = calls_of(m, caps)
          /\ outcome' = outcome_of(m, caps)
          /\ limited' = IF outcome' = "return" /\ kinematic_guard(m)
                        THEN caps ELSE NoCaps
    /\ UNCHANGED <<self, by_cmd, cmd_vars, thread_vars>>

\* the toolhead check_move returns to (or raises its error to): the move
\* goes on to the look-ahead queue, or is dropped
move_return ==
    /\ chk_pc = 0
    /\ outcome # "none"
    /\ move' = NoMove
    /\ toolhead' = NoToolhead
    /\ calls' = <<>>
    /\ limited' = NoCaps
    /\ outcome' = "none"
    /\ snaps' = {}
    /\ UNCHANGED <<self, by_cmd, cmd_vars, cmd_pc, chk_pc, chk_reads>>

\* the commands of a session
NextCmd ==
    \/ \E params \in Params : cmd_SET_KINEMATICS_LIMIT(params)
    \/ command_return

SpecCmd == Init /\ [][NextCmd]_vars

\* the moves of a print under the limits a configuration or a command left
NextMove ==
    \/ \E m \in Moves, th \in Toolheads : check_move(m, th)
    \/ move_return

SpecMove == Init /\ [][NextMove]_vars

(***************************************************************************)
(* The two handlers on two threads, with nothing between them: a command   *)
(* dispatched from another execution context than the one planning moves.  *)
(* Each statement that reads or writes self is one step (the interpreter   *)
(* switches threads between statements).  The parameter a statement of the *)
(* command reads is drawn when it runs: each is read once, by one          *)
(* statement, so drawing them all when the command starts gives the same   *)
(* behaviours.  by_cmd, the history of the commands of a session, is not   *)
(* kept here.                                                              *)
(***************************************************************************)
MaxSnaps == 1   \* commands that may end while one check_move is running

ConcConfigs   == Configs({1, MaxAccel}, {1})
ConcMoves     == {m \in KinematicMoves \cup SlightMoves \cup ExtrudeMoves :
                      /\ m.move_d = F[1]
                      /\ m.axes_d[2] = F[0]
                      /\ m.axes_d[1].s = 0 /\ m.axes_d[3].s = 0}
ConcToolheads == {th \in Toolheads : th.max_velocity = 1 /\ th.max_accel = MaxAccel}

InitConc == InitWith(ConcConfigs)

\* self as it was when no command was running
Settled == IF cmd_pc = 0 THEN self ELSE cmd_pre

\* line 45-46: the command starts
cmd_begin ==
    /\ cmd_pc = 0
    /\ cmd_result = "none"
    /\ outcome = "none"
    /\ chk_pc # 0 => Cardinality(snaps) <= MaxSnaps
    /\ cmd_pc' = FirstLine
    /\ cmd_pre' = self
    /\ UNCHANGED <<self, by_cmd, cmd_result, response, chk_vars, chk_pc, chk_reads, snaps>>

\* one of lines 47-50 completes
cmd_assign(params) ==
    LET r == cmd_statement(self, params, cmd_pc)
    IN  /\ cmd_pc \in FirstLine..LastLine
        /\ r.ok
        /\ self' = r.s
        /\ cmd_pc' = cmd_pc + 1
        /\ UNCHANGED <<by_cmd, cmd_vars, chk_vars, chk_pc, chk_reads, snaps>>

\* one of lines 47-50 raises the command's error
cmd_raise(params) ==
    LET r == cmd_statement(self, params, cmd_pc)
    IN  /\ cmd_pc \in FirstLine..LastLine
        /\ ~r.ok
        /\ cmd_pc' = 0
        /\ cmd_result' = "error"
        /\ snaps' = IF snaps # {} THEN snaps \cup {self} ELSE snaps
        /\ UNCHANGED <<self, by_cmd, response, cmd_pre, chk_vars, chk_pc, chk_reads>>

\* lines 51-60: the report, and the command ends
cmd_respond ==
    /\ cmd_pc = LastLine + 1
    /\ cmd_pc' = 0
    /\ cmd_result' = "ok"
    /\ response' = report(self)
    /\ snaps' = IF snaps # {} THEN snaps \cup {self} ELSE snaps
    /\ UNCHANGED <<self, by_cmd, cmd_pre, chk_vars, chk_pc, chk_reads>>

\* lines 62-63: a move that is not kinematic returns at once
chk_skip(m, th) ==
    /\ chk_pc = 0 /\ outcome = "none"
    /\ ~kinematic_guard(m)
    /\ move' = m
    /\ toolhead' = th
    /\ outcome' = "return"
    /\ UNCHANGED <<self, by_cmd, cmd_vars, calls, limited, thread_vars>>

\* line 64: the endstop check raises
chk_endstop(m, th) ==
    /\ chk_pc = 0 /\ outcome = "none"
    /\ kinematic_guard(m) /\ ~_check_endstops(m)
    /\ move' = m
    /\ toolhead' = th
    /\ calls' = <<"_check_endstops">>
    /\ outcome' = "move_error"
    /\ UNCHANGED <<self, by_cmd, cmd_vars, limited, thread_vars>>

\* lines 62-72: up to the test of ab_linf
chk_begin(m, th) ==
    /\ chk_pc = 0 /\ outcome = "none"
    /\ kinematic_guard(m) /\ _check_endstops(m)
    /\ move' = m
    /\ toolhead' = th
    /\ calls' = <<"_check_endstops">>
    /\ chk_pc' = IF xy_guard(ab_linf(m.axes_d[1], m.axes_d[2])) THEN 74 ELSE 86
    /\ chk_reads' = NoSelf
    /\ snaps' = {Settled}
    /\ UNCHANGED <<self, by_cmd, cmd_vars, limited, outcome, cmd_pc>>

\* line 74
chk_read_x ==
    /\ chk_pc = 74
    /\ chk_reads' = [chk_reads EXCEPT !.max_x_accel = self.max_x_accel]
    /\ chk_pc' = 75
    /\ UNCHANGED <<self, by_cmd, cmd_vars, chk_vars, cmd_pc, snaps>>

\* line 75
chk_read_y ==
    /\ chk_pc = 75
    /\ chk_reads' = [chk_reads EXCEPT !.max_y_accel = self.max_y_accel]
    /\ chk_pc' = 80
    /\ UNCHANGED <<self, by_cmd, cmd_vars, chk_vars, cmd_pc, snaps>>

\* lines 76-85: the last reads of the XY branch and its divisions, where a
\* divisor that is 0 raises and ends check_move
chk_read_scale ==
    LET reads == [chk_reads EXCEPT !.scale_per_axis = self.scale_per_axis,
                                   !.config_max_accel = self.config_max_accel]
    IN  /\ chk_pc = 80
        /\ chk_reads' = reads
        /\ IF CapsRaised(xy_limits(toolhead_caps(toolhead), move, reads))
           THEN chk_pc' = 0 /\ outcome' = "ZeroDivisionError"
           ELSE chk_pc' = 86 /\ outcome' = outcome
        /\ UNCHANGED <<self, by_cmd, cmd_vars, move, toolhead, calls, limited,
                       cmd_pc, snaps>>

\* lines 86-89
chk_read_z ==
    /\ chk_pc = 86
    /\ chk_reads' = IF z_guard(move.axes_d[3])
                    THEN [chk_reads EXCEPT !.max_z_velocity = self.max_z_velocity,
                                           !.max_z_accel = self.max_z_accel]
                    ELSE chk_reads
    /\ chk_pc' = 90
    /\ UNCHANGED <<self, by_cmd, cmd_vars, chk_vars, cmd_pc, snaps>>

\* line 90, with the caps lines 65-89 drew from the fields as they were read
chk_limit_speed ==
    /\ chk_pc = 90
    /\ chk_pc' = 0
    /\ outcome' = "return"
    /\ calls' = Append(calls, "limit_speed")
    /\ limited' = limits(move, toolhead, chk_reads)
    /\ UNCHANGED <<self, by_cmd, cmd_vars, move, toolhead, cmd_pc,
                   chk_reads, snaps>>

\* the parameter dictionaries as far as the statement at `line` reads them
ParamsAt(line) ==
    IF line \in FirstLine..LastLine
    THEN ParamsOver({ParamOf(line)}, {0, 1, MaxAccel}) ELSE {}

NextConc ==
    \/ cmd_begin
    \/ \E params \in ParamsAt(cmd_pc) : cmd_assign(params)
    \/ \E params \in ParamsAt(cmd_pc) : cmd_raise(params)
    \/ cmd_respond
    \/ command_return
    \/ \E m \in ConcMoves, th \in ConcToolheads : chk_skip(m, th)
    \/ \E m \in ConcMoves, th \in ConcToolheads : chk_endstop(m, th)
    \/ \E m \in ConcMoves, th \in ConcToolheads : chk_begin(m, th)
    \/ chk_read_x
    \/ chk_read_y
    \/ chk_read_scale
    \/ chk_read_z
    \/ chk_limit_speed
    \/ move_return

SpecConc == InitConc /\ [][NextConc]_vars

(***************************************************************************)
(* Properties.                                                             *)
(***************************************************************************)
AccelFields == {"max_x_accel", "max_y_accel", "max_z_accel"}

\* check_move ran to its end on a kinematic move and called limit_speed
Limited == outcome = "return" /\ kinematic_guard(move) /\ Len(calls) = 2

dx == move.axes_d[1]
dy == move.axes_d[2]
dz == move.axes_d[3]

\* a float that is an integer below 2^30, and the integer
Integral(a) ==
    \/ IsZero(a)
    \/ /\ a.k = "fin" /\ a.e <= 0 /\ BLowZero(a.m, -a.e)
       /\ BitLen[a.m] + a.e <= 30

RECURSIVE BToInt(_)
BToInt(a) == IF a = <<>> THEN 0 ELSE a[1] + Base * BToInt(Tail(a))

IntOf(a) ==
    IF IsZero(a) THEN 0
    ELSE (IF a.s = 1 THEN -1 ELSE 1) * BToInt(BShr[a.m, -a.e])

\* a float with all Precision bits of its mantissa (no zero, no subnormal)
Normal(a) == a.k = "fin" /\ BitLen[a.m] = Precision

\* the float 2^k
Pow2(k) == Finite(0, BShl[<<1>>, Precision - 1], k - (Precision - 1))

\* |a - b| <= |b| * 2^k: a is b up to a relative error of 2^k
Near(a, b, k) == FLe[FAbs[FSub[a, b]], FMul[FAbs[b], Pow2(k)]]

\* -1, 0, 1 as a^2 is below, at or above n / d, for a finite float a > 0 and
\* natural numbers n, d > 0, without rounding
SqCmp(a, n, d) ==
    LET m2d == BMul[BMul[a.m, a.m], d]
    IN  IF a.e >= 0 THEN BCmp[BShl[m2d, 2 * a.e], n]
        ELSE BCmp[m2d, BShl[n, -2 * a.e]]

\* (2^50 - 1)^2, (2^50 + 1)^2 and 2^100: (1 - 2^-50)^2 and (1 + 2^-50)^2 as
\* fractions
SqBelow == LET t == BSub[BShl[<<1>>, 50], <<1>>] IN BMul[t, t]
SqAbove == LET t == BAdd[BShl[<<1>>, 50], <<1>>] IN BMul[t, t]
SqUnit  == BShl[<<1>>, 100]

PureX == ~IsZero(dx) /\ IsZero(dy) /\ IsZero(dz) /\ FEq[move.move_d, FAbs[dx]]
PureY == ~IsZero(dy) /\ IsZero(dx) /\ IsZero(dz) /\ FEq[move.move_d, FAbs[dy]]
PureZ == IsZero(dx) /\ IsZero(dy) /\ ~IsZero(dz) /\ FEq[move.move_d, FAbs[dz]]
Planar == /\ IsZero(dz) /\ (~IsZero(dx) \/ ~IsZero(dy))
          /\ Integral(dx) /\ Integral(dy) /\ Integral(move.move_d)
          /\ IntOf(move.move_d) * IntOf(move.move_d)
               = IntOf(dx) * IntOf(dx) + IntOf(dy) * IntOf(dy)

\* C1: a command with an invalid field fails and leaves max_x_accel,
\* max_y_accel, max_z_accel and scale_per_axis as they were before it.
C1_RejectedCommandChangesNothing ==
    cmd_result = "error" => self = cmd_pre

\* C2: an evaluation that overlaps commands computes its caps from the
\* limits as they were before or after a command, never from a mix of both.
C2_EvaluationUsesOneSnapshot ==
    (Limited /\ snaps # {} /\ cmd_pc = 0) =>
        \E s \in snaps : limited = limits(move, toolhead, s)

\* every acceleration limit a command wrote from a parameter it carried lies
\* in (0, config_max_accel]
C3_InRange ==
    \A f \in by_cmd \cap AccelFields :
        0 < self[f] /\ self[f] <= self.config_max_accel

\* C3: an acceleration limit that a command wrote from a parameter it carried
\* is > 0 and <= config_max_accel, whether the command was accepted or
\* rejected, and no step changes config_max_accel.
C3_CommandLimitsInRange ==
    /\ []C3_InRange
    /\ [][self'.config_max_accel = self.config_max_accel]_vars

C3_Witness ==
    /\ cmd_result = "error"
    /\ "max_x_accel" \in by_cmd
    /\ self.max_x_accel # cmd_pre.max_x_accel
    /\ self.max_y_accel > self.config_max_accel

\* C4 as claimed: the endstop check is made for every move passed to
\* check_move, a move that is not kinematic included.
C4_EndstopsCheckedForEveryMove ==
    outcome # "none" => (Len(calls) >= 1 /\ calls[1] = "_check_endstops")

\* C4 as amended: the endstop check is made for every kinematic move, before
\* limit_speed is called; for a move that is not kinematic check_move
\* returns with neither the endstop check nor limit_speed called.
C4_EndstopsCheckedForKinematicMoves ==
    outcome # "none" =>
        IF move.is_kinematic_move
        THEN /\ Len(calls) >= 1 /\ calls[1] = "_check_endstops"
             /\ \A i \in DOMAIN calls : calls[i] = "limit_speed" => i = 2
             /\ (outcome = "return" <=> calls = <<"_check_endstops", "limit_speed">>)
        ELSE calls = <<>> /\ outcome = "return" /\ limited = NoCaps

C4_Witness ==
    outcome = "return" /\ ~move.is_kinematic_move /\ ~move.end_ok /\ calls = <<>>

\* C5 as claimed: under the independent policy the max_a of a move along X
\* is max_x_accel exactly and that of a move along Y is max_y_accel exactly,
\* whatever toolhead.max_accel is.
C5_AxisLimitPassesThrough ==
    (Limited /\ ~self.scale_per_axis) =>
        /\ PureX => FEq[limited.max_a, F[self.max_x_accel]]
        /\ PureY => FEq[limited.max_a, F[self.max_y_accel]]

\* C5 as amended: under the independent policy the max_a of a move along X
\* is max_x_accel up to the rounding of the two divisions of lines 76 and 85
\* (a relative error of at most 2^-51) when both quotients are normal floats
\* (neither division overflows or underflows), whatever toolhead.max_accel
\* is; likewise along Y with max_y_accel and lines 77 and 85.
C5_AxisLimitWithinRounding ==
    (Limited /\ ~self.scale_per_axis /\ Normal(limited.max_a)) =>
        /\ (PureX /\ Normal(FDiv[dx, F[self.max_x_accel]])) =>
              Near(limited.max_a, F[self.max_x_accel], -51)
        /\ (PureY /\ Normal(FDiv[dy, F[self.max_y_accel]])) =>
              Near(limited.max_a, F[self.max_y_accel], -51)

C5_Witness ==
    /\ Limited /\ ~self.scale_per_axis /\ PureX
    /\ toolhead.max_accel # self.max_x_accel
    /\ self.max_x_accel # self.max_y_accel
    /\ ~FEq[limited.max_a, F[self.max_x_accel]]

\* toolhead.max_accel * max_x_accel / config_max_accel, as Python computes it
ScaledLimit ==
    FDiv[FMul[F[toolhead.max_accel], F[self.max_x_accel]],
         F[self.config_max_accel]]

\* C6 as claimed: under the scaling policy the max_a of a move along X is
\* toolhead.max_accel * max_x_accel / config_max_accel, which is
\* toolhead.max_accel itself when max_x_accel = config_max_accel.
C6_AxisLimitScales ==
    (Limited /\ self.scale_per_axis /\ PureX) =>
        /\ FEq[limited.max_a, ScaledLimit]
        /\ self.max_x_accel = self.config_max_accel =>
              FEq[limited.max_a, F[toolhead.max_accel]]

\* C6 as amended: under the scaling policy the max_a of a move along X is
\* toolhead.max_accel * max_x_accel / config_max_accel up to the rounding of
\* the operations of lines 76, 81 and 85 and of that expression (a relative
\* error of at most 2^-50) when the results of these operations are normal
\* floats (none overflows or underflows); it is toolhead.max_accel up to
\* that rounding when max_x_accel = config_max_accel.
C6_AxisLimitScalesWithinRounding ==
    LET ratio == FDiv[move.move_d, F[self.config_max_accel]]
    IN  (/\ Limited /\ self.scale_per_axis /\ PureX
         /\ Normal(ratio) /\ Normal(FMul[F[toolhead.max_accel], ratio])
         /\ Normal(FDiv[dx, F[self.max_x_accel]]) /\ Normal(limited.max_a)
         /\ Normal(FMul[F[toolhead.max_accel], F[self.max_x_accel]])
         /\ Normal(ScaledLimit)) =>
            /\ Near(limited.max_a, ScaledLimit, -50)
            /\ self.max_x_accel = self.config_max_accel =>
                  Near(limited.max_a, F[toolhead.max_accel], -50)

C6_Witness ==
    /\ Limited /\ self.scale_per_axis /\ PureX
    /\ self.max_x_accel = self.config_max_accel
    /\ toolhead.max_accel < self.config_max_accel
    /\ ~FEq[limited.max_a, F[toolhead.max_accel]]

\* C7: a move along Z alone skips the XY branch under either policy:
\* limit_speed gets max_v = min(toolhead.max_velocity, max_z_velocity),
\* max_a = min(toolhead.max_accel, max_z_accel) and max_pa = toolhead.max_accel.
C7_PureZMove ==
    (Limited /\ PureZ) =>
        /\ limited.max_v =
              FMin[F[toolhead.max_velocity], F[self.max_z_velocity]]
        /\ limited.max_a = FMin[F[toolhead.max_accel], F[self.max_z_accel]]
        /\ limited.max_pa = F[toolhead.max_accel]

C7_Witness ==
    /\ Limited /\ PureZ /\ self.scale_per_axis
    /\ self.max_z_accel < toolhead.max_accel
    /\ self.max_z_velocity < toolhead.max_velocity
    /\ self.max_x_accel < toolhead.max_accel
    /\ FLt[F[1], dz]

\* the move runs along a direction |y| : |x| = max_x_accel : max_y_accel
OnDiagonal ==
    IntOf(FAbs[dy]) * self.max_y_accel = IntOf(FAbs[dx]) * self.max_x_accel

\* (|x| * max_y_accel + |y| * max_x_accel)^2
\*    <= (x^2 + y^2) * (max_x_accel^2 + max_y_accel^2),
\* with equality exactly on the diagonal
DiagonalInequality ==
    LET lhs == IntOf(FAbs[dx]) * self.max_y_accel
               + IntOf(FAbs[dy]) * self.max_x_accel
        rhs == (IntOf(dx) * IntOf(dx) + IntOf(dy) * IntOf(dy))
               * (self.max_x_accel * self.max_x_accel
                  + self.max_y_accel * self.max_y_accel)
    IN  lhs * lhs <= rhs /\ (lhs * lhs = rhs <=> OnDiagonal)

\* C8 as claimed: under the independent policy the max_a of a planar move is
\* never below the diagonal minimum 1/sqrt(1/max_x_accel^2 + 1/max_y_accel^2)
\* the command reports, and equals it exactly for the directions
\* |y| : |x| = max_x_accel : max_y_accel.
C8_DiagonalMinimumIsLowest ==
    (Limited /\ ~self.scale_per_axis /\ Planar) =>
        LET q == diagonal_minimum_sq(self.max_x_accel, self.max_y_accel)
            c == SqCmp(limited.max_a, BFromInt[q[1]], BFromInt[q[2]])
        IN  /\ FLt[F[0], limited.max_a]
            /\ DiagonalInequality
            /\ c >= 0
            /\ c = 0 <=> OnDiagonal

\* C8 as amended: under the independent policy the max_a of a planar move is
\* never below the diagonal minimum by more than the rounding of the
\* operations of lines 76, 77 and 85 (a relative error of at most 2^-50),
\* and for the directions |y| : |x| = max_x_accel : max_y_accel it is the
\* diagonal minimum up to that rounding, when the results of these
\* operations are normal floats or, for an axis the move does not run
\* along, 0 (none overflows or underflows).
C8_DiagonalMinimumWithinRounding ==
    LET x_accel == F[self.max_x_accel]
        y_accel == F[self.max_y_accel]
        x_o_a == FDiv[dx, x_accel]
        y_o_a == FDiv[dy, y_accel]
    IN  (/\ Limited /\ ~self.scale_per_axis /\ Planar
         /\ Normal(x_o_a) \/ (IsZero(dx) /\ IsZero(x_o_a))
         /\ Normal(y_o_a) \/ (IsZero(dy) /\ IsZero(y_o_a))
         /\ Normal(a_divisor(dx, dy, x_accel, y_accel))
         /\ Normal(limited.max_a)) =>
            LET q == diagonal_minimum_sq(self.max_x_accel, self.max_y_accel)
                n == BFromInt[q[1]]
                d == BFromInt[q[2]]
            IN  /\ FLt[F[0], limited.max_a]
                /\ DiagonalInequality
                /\ SqCmp(limited.max_a, BMul[n, SqBelow], BMul[d, SqUnit]) >= 0
                /\ OnDiagonal =>
                      SqCmp(limited.max_a, BMul[n, SqAbove], BMul[d, SqUnit]) <= 0

C8_Witness ==
    /\ Limited /\ ~self.scale_per_axis /\ Planar /\ OnDiagonal
    /\ self.max_x_accel # self.max_y_accel
    /\ FLt[dx, F[0]] /\ FLt[F[0], dy]

\* C9: no evaluation divides by zero: ab_linf is 0 exactly when x = y = 0,
\* both divisors of the XY branch are > 0 whenever ab_linf > 0, and |z| is
\* divided by only when z # 0, so a kinematic move that passes the endstop
\* check always reaches limit_speed.
C9_NoDivisionByZero ==
    (outcome # "none" /\ kinematic_guard(move) /\ _check_endstops(move)) =>
        LET ab == ab_linf(dx, dy)
            x_accel == F[self.max_x_accel]
            y_accel == F[self.max_y_accel]
        IN  /\ outcome = "return"
            /\ ~CapsRaised(limited)
            /\ IsZero(ab) <=> (IsZero(dx) /\ IsZero(dy))
            /\ xy_guard(ab) <=> (~IsZero(dx) \/ ~IsZero(dy))
            /\ xy_guard(ab) =>
                  /\ FLt[F[0], a_divisor(dx, dy, x_accel, y_accel)]
                  /\ FLt[F[0], pa_divisor(dx, dy, x_accel, y_accel)]
            /\ z_guard(dz) <=> FLt[F[0], FAbs[dz]]

\* C10 as claimed: for every kinematic move with ab_linf > 0, one with a Z
\* component included, the max_v passed to limit_speed is never greater than
\* toolhead.max_velocity.
C10_VelocityNeverRaised ==
    (Limited /\ xy_guard(ab_linf(dx, dy))) =>
        FLe[limited.max_v, F[toolhead.max_velocity]]

\* C10 as amended: for every kinematic move with ab_linf > 0 and
\* move_d <= ab_linf, which every planar move (z = 0) is, the velocity
\* toolhead.max_velocity * move_d / ab_linf and the max_v passed to
\* limit_speed are never greater than toolhead.max_velocity.
C10_VelocityTightenedWithinPlane ==
    LET ab == ab_linf(dx, dy)
    IN  (Limited /\ xy_guard(ab)) =>
            /\ Planar => FLe[move.move_d, ab]
            /\ FLe[move.move_d, ab] =>
                  /\ FLe[FMul[F[toolhead.max_velocity], FDiv[move.move_d, ab]],
                         F[toolhead.max_velocity]]
                  /\ FLe[limited.max_v, F[toolhead.max_velocity]]
            /\ IsZero(dz) =>
                  limited.max_v =
                     FMul[F[toolhead.max_velocity], FDiv[move.move_d, ab]]

C10_Witness ==
    /\ Limited /\ Planar /\ ~IsZero(dx) /\ ~IsZero(dy)
    /\ FLt[limited.max_v, F[toolhead.max_velocity]]

====
